---- MODULE Spec2Model ----
(***************************************************************************)
(* Model of the Restate VS Code extension: the server supervisor          *)
(* (RestateServerRunner), the deployment registration with bounded retry, *)
(* and the activity detection that drives both.                           *)
(*                                                                         *)
(* Every JavaScript handler runs to completion on one event loop, so an   *)
(* action is one macrotask: a call or an event together with every        *)
(* promise continuation (microtask) it releases.  Child-process events,   *)
(* timers and HTTP responses are separate macrotasks of the environment.  *)
(***************************************************************************)
EXTENDS Naturals, Integers, Sequences, FiniteSets, TLC

\* ------------------------------------------------------------------ bounds
MaxProcs == 2        \* server processes that may be spawned in one run
MaxSeq == 2          \* runner instances / concurrent callers
StopTicks == 2       \* clock steps per escalation timeout

\* ------------------------------------------------------- program constants
ForceKillTimeoutMs == 10000
maxRetries == 10
RetryDelayMs == 400

Procs == 1..MaxProcs
Runners == 1..MaxSeq
Callers == 1..MaxSeq
Seqs == 1..MaxSeq
NoProc == 0

StopTickMs == ForceKillTimeoutMs \div StopTicks

VARIABLES
    installed,          \* fs.existsSync(serverPath)
    starting,           \* RestateServerRunner.starting, per runner
    serverProcess,      \* RestateServerRunner.serverProcess, per runner (NoProc = undefined)
    startPc,            \* where the runner's pending _startServer call waits
    cancelRequested,    \* cancellationToken.isCancellationRequested of that call
    procs,              \* every child process spawned for the server
    supOp,              \* the last supervisor step and its outcome (history)
    isRegisteringDeployment,    \* the module-level registration guard
    reg,                \* each caller's registerRestateServiceDeployment call
    regOp,              \* the last registration step and its outcome (history)
    restateServerRunner,    \* the module-level runner of the extension (0 = undefined)
    seq,                \* each detection's auto-start and register sequence
    processEnv,         \* process.env
    customEnvVars,      \* the restate.serverEnv setting
    spawnEnv,           \* the env option the server was spawned with
    data,               \* a chunk of terminal output or a debug output event's text
    category,           \* the debug output event's category ("" for a terminal chunk)
    detected,           \* whether the monitor acted on the chunk
    autoRegistrationMode,       \* the restate.autoRegistrationMode setting
    autoStartRestateServer,     \* the restate.autoStartRestateServer setting
    registrationCancelled       \* a cancellation requested for the registration in flight

supVars == <<installed, starting, serverProcess, startPc, cancelRequested, procs, supOp>>
regVars == <<isRegisteringDeployment, reg, regOp>>
detVars == <<restateServerRunner, seq>>
envVars == <<processEnv, customEnvVars, spawnEnv>>
markVars == <<data, category, detected>>
cfgVars == <<autoRegistrationMode, autoStartRestateServer, registrationCancelled>>

vars == <<supVars, regVars, detVars, envVars, markVars, cfgVars>>

FreshProc ==
    [state |-> "none", owner |-> 0, stop |-> "none", timer |-> -1,
     onceClose |-> FALSE, onceError |-> FALSE,
     sigterm |-> FALSE, sigkill |-> FALSE, errored |-> FALSE,
     sinceTerm |-> 0, evtFirst |-> FALSE, killAt |-> -1,
     uiTrue |-> 0, uiFalse |-> 0]

Min(S) == CHOOSE x \in S : \A y \in S : x <= y

Op(o, i, r) == [op |-> o, id |-> i, res |-> r]

\* ------------------------------------------------------------ supervisor

isRunning(r) == serverProcess[r] # NoProc

UnusedProcs == {p \in Procs : procs[p].state = "none"}

\* The two guards of startServer: the call returns with a warning.
AlreadyStarting(r) == starting[r]

AlreadyRunningNoCheck(r) == FALSE

AlreadyRunning(r) == serverProcess[r] # NoProc

\* spawn(serverPath, ...) with the three listeners, then starting = false.
SpawnServer(r, op) ==
    /\ UnusedProcs # {}
    /\ LET p == Min(UnusedProcs) IN
        /\ procs' = [procs EXCEPT ![p] = [FreshProc EXCEPT !.state = "pending", !.owner = r]]
        /\ serverProcess' = [serverProcess EXCEPT ![r] = p]
        /\ supOp' = Op(op, r, "spawned")
    /\ starting' = [starting EXCEPT ![r] = FALSE]
    /\ startPc' = [startPc EXCEPT ![r] = "idle"]

\* fs.existsSync(serverPath)
BinaryPresentAssumed == TRUE

BinaryPresent == installed

\* startServer up to its first wait: the guard, starting = true, and either
\* the spawn (binary present) or the start of the install subprocess.
StartServer(r) ==
    IF AlreadyStarting(r) THEN
        /\ supOp' = Op("startServer", r, "alreadyStarting")
        /\ UNCHANGED <<installed, starting, serverProcess, startPc, cancelRequested, procs>>
    ELSE IF AlreadyRunning(r) THEN
        /\ supOp' = Op("startServer", r, "alreadyRunning")
        /\ UNCHANGED <<installed, starting, serverProcess, startPc, cancelRequested, procs>>
    ELSE IF BinaryPresent THEN
        /\ SpawnServer(r, "startServer")
        /\ cancelRequested' = [cancelRequested EXCEPT ![r] = FALSE]
        /\ UNCHANGED installed
    ELSE
        /\ starting' = [starting EXCEPT ![r] = TRUE]
        /\ startPc' = [startPc EXCEPT ![r] = "installing"]
        /\ cancelRequested' = [cancelRequested EXCEPT ![r] = FALSE]
        /\ supOp' = Op("startServer", r, "installing")
        /\ UNCHANGED <<installed, serverProcess, procs>>

\* The user cancels the progress notification: the token fires and the
\* listener kills the install subprocess.
CancelStart(r) ==
    /\ startPc[r] = "installing"
    /\ ~cancelRequested[r]
    /\ cancelRequested' = [cancelRequested EXCEPT ![r] = TRUE]
    /\ supOp' = Op("cancel", r, "installKilled")
    /\ UNCHANGED <<installed, starting, serverProcess, startPc, procs>>

InstallOutcomes == {"close0", "closeNonZero", "error"}

\* installProcess.on('close', code => code === 0 ? resolve() : reject(...))
InstallSucceededOnAnyClose(outcome) == outcome \in {"close0", "closeNonZero"}

InstallSucceeded(outcome) == outcome = "close0"

\* if (cancellationToken.isCancellationRequested) return;
CancelledBeforeSpawnUnchecked(r) == FALSE

CancelledBeforeSpawn(r) == cancelRequested[r]

\* The starting flag once a start that did not reach the spawn has settled:
\* .finally(() => { this.starting = false; })
StartingAfterSettleKept(s) == s

StartingAfterSettle(s) == FALSE

\* The install subprocess settles; startServer runs on to its end.
InstallSettle(r, outcome) ==
    /\ startPc[r] = "installing"
    /\ IF InstallSucceeded(outcome) THEN
            /\ installed' = (installed \/ outcome = "close0")
            /\ IF CancelledBeforeSpawn(r) THEN
                    /\ starting' = [starting EXCEPT ![r] = StartingAfterSettle(@)]
                    /\ startPc' = [startPc EXCEPT ![r] = "idle"]
                    /\ supOp' = Op("installSettled", r, "cancelled")
                    /\ UNCHANGED <<serverProcess, procs>>
               ELSE SpawnServer(r, "installSettled")
       ELSE
            /\ starting' = [starting EXCEPT ![r] = StartingAfterSettle(@)]
            /\ startPc' = [startPc EXCEPT ![r] = "idle"]
            /\ supOp' = Op("installSettled", r, "installFailed")
            /\ UNCHANGED <<installed, serverProcess, procs>>
    /\ UNCHANGED cancelRequested

\* The process stopServer signals.
ProcessToKillStale(r) ==
    IF serverProcess[r] # NoProc THEN serverProcess[r]
    ELSE IF \E p \in Procs : procs[p].owner = r /\ procs[p].state \in {"pending", "up"}
         THEN CHOOSE p \in Procs : procs[p].owner = r /\ procs[p].state \in {"pending", "up"}
         ELSE NoProc

ProcessToKill(r) == serverProcess[r]

\* if (this.starting) { showWarningMessage(...); return; }
StopWhileStartingUnchecked(r) == FALSE

StopWhileStarting(r) == starting[r]

\* this.serverProcess = undefined; // Clear reference immediately
HandleAfterStopKept(p) == p

HandleAfterStop(p) == NoProc

StopServer(r) ==
    IF StopWhileStarting(r) THEN
        /\ supOp' = Op("stopServer", r, "ignoredStarting")
        /\ UNCHANGED <<installed, starting, serverProcess, startPc, cancelRequested, procs>>
    ELSE IF ProcessToKill(r) # NoProc THEN
        LET p == ProcessToKill(r) IN
        /\ serverProcess' = [serverProcess EXCEPT ![r] = HandleAfterStop(p)]
        /\ procs' = [procs EXCEPT ![p] = [@ EXCEPT !.sigterm = TRUE, !.stop = "pending",
                                            !.timer = ForceKillTimeoutMs,
                                            !.onceClose = TRUE, !.onceError = TRUE,
                                            !.sinceTerm = 0]]
        /\ supOp' = Op("stopServer", r, "signalled")
        /\ UNCHANGED <<installed, starting, startPc, cancelRequested>>
    ELSE
        /\ supOp' = Op("stopServer", r, "resolved")
        /\ UNCHANGED <<installed, starting, serverProcess, startPc, cancelRequested, procs>>

\* updateUI(running), counted on the process whose listener calls it.
UpdateUIAlwaysTrue(q, running) == [q EXCEPT !.uiTrue = @ + 1]

UpdateUI(q, running) ==
    IF running THEN [q EXCEPT !.uiTrue = @ + 1] ELSE [q EXCEPT !.uiFalse = @ + 1]

\* The handle after the 'error' or 'close' listener of process p has run:
\* this.serverProcess = undefined
HandleAfterExitKept(h, p) == h

HandleAfterExit(h, p) == NoProc

\* once('spawn'): updateUI(true)
SpawnEvent(p) ==
    /\ procs[p].state = "pending"
    /\ procs' = [procs EXCEPT ![p] = UpdateUI([@ EXCEPT !.state = "up"], TRUE)]
    /\ supOp' = Op("spawn", p, "up")
    /\ UNCHANGED <<installed, starting, serverProcess, startPc, cancelRequested>>

\* What clearTimeout(forceKillTimeout) leaves of the timer.
ClearTimeoutForgotten(t) == t

ClearTimeout(t) == -1

\* The stop call's once('close') / once('error') listener.
StopListenerNeverSettles(q, attached, settle) ==
    IF attached THEN [q EXCEPT !.timer = ClearTimeout(q.timer)] ELSE q

StopListener(q, attached, settle) ==
    IF attached
    THEN [q EXCEPT !.timer = ClearTimeout(q.timer),
                   !.stop = IF q.stop = "pending" THEN settle ELSE q.stop]
    ELSE q

\* on('error'): the spawn failed, or a signal could not be delivered.
ErrorEvent(p) ==
    /\ \/ procs[p].state = "pending"
       \/ procs[p].state = "up" /\ procs[p].sigterm
    /\ ~procs[p].errored
    /\ LET q == [procs[p] EXCEPT !.state = IF @ = "pending" THEN "failed" ELSE @,
                                  !.errored = TRUE,
                                  !.evtFirst = @ \/ (procs[p].sigterm /\ ~procs[p].sigkill),
                                  !.onceError = FALSE]
       IN procs' = [procs EXCEPT ![p] =
                        StopListener(UpdateUI(q, FALSE), procs[p].onceError, "rejected")]
    /\ serverProcess' = [serverProcess EXCEPT ![procs[p].owner] = HandleAfterExit(@, p)]
    /\ supOp' = Op("error", p, "handled")
    /\ UNCHANGED <<installed, starting, startPc, cancelRequested>>

\* on('close'): the process ended and its streams are closed.
CloseEvent(p) ==
    /\ procs[p].state \in {"up", "failed"}
    /\ LET q == [procs[p] EXCEPT !.state = "closed",
                                  !.evtFirst = @ \/ (procs[p].sigterm /\ ~procs[p].sigkill),
                                  !.onceClose = FALSE]
       IN procs' = [procs EXCEPT ![p] =
                        StopListener(UpdateUI(q, FALSE), procs[p].onceClose, "resolved")]
    /\ serverProcess' = [serverProcess EXCEPT ![procs[p].owner] = HandleAfterExit(@, p)]
    /\ supOp' = Op("close", p, "handled")
    /\ UNCHANGED <<installed, starting, startPc, cancelRequested>>

\* The stop promise after kill('SIGKILL'): the catch block rejects it.
StopAfterKillSwallowed(s, throws) == s

StopAfterKill(s, throws) == IF throws /\ s = "pending" THEN "rejected" ELSE s

\* The escalation timer fires: kill('SIGKILL'), which may throw.
ForceKill(p, throws) ==
    /\ procs[p].timer = 0
    /\ procs' = [procs EXCEPT ![p] = [@ EXCEPT !.timer = -1, !.sigkill = TRUE,
                                        !.killAt = procs[p].sinceTerm,
                                        !.stop = StopAfterKill(@, throws)]]
    /\ supOp' = Op("forceKill", p, IF throws THEN "threw" ELSE "sent")
    /\ UNCHANGED <<installed, starting, serverProcess, startPc, cancelRequested>>

\* ------------------------------------------------------------------ time

SinceTermCap == ForceKillTimeoutMs + 1

ArmedKillTimers == {procs[p].timer : p \in {x \in Procs : procs[x].timer > 0}}
DueKillTimers == {p \in Procs : procs[p].timer = 0}
Counting == {p \in Procs : procs[p].sigterm /\ procs[p].sinceTerm < SinceTermCap}

\* Time passes: at most d ms, and never past the next timer that is due.
TickStop(d) ==
    /\ DueKillTimers = {}
    /\ Counting # {}
    /\ LET step == Min({d} \cup ArmedKillTimers) IN
       procs' = [p \in Procs |->
            [procs[p] EXCEPT
                !.timer = IF @ > 0 THEN @ - step ELSE @,
                !.sinceTerm = IF procs[p].sigterm
                              THEN Min({@ + step, SinceTermCap}) ELSE @]]
    /\ supOp' = Op("tick", 0, "passed")
    /\ UNCHANGED <<installed, starting, serverProcess, startPc, cancelRequested>>

\* ---------------------------------------------------------- registration

\* What one POST to http://localhost:9070/deployments can come back with:
\* 2xx with a JSON body, 2xx with a body response.json() cannot parse,
\* a non-2xx status, or a transport error (fetch rejects).
Responses == {"ok", "okBadBody", "non2xx", "netError"}

Is2xx(resp) == resp \in {"ok", "okBadBody"}

FreshReg ==
    [pc |-> "idle", attempt |-> 0, timer |-> -1,
     posts |-> 0, seen2xx |-> FALSE, postedAfter2xx |-> FALSE,
     reports |-> 0, sincePost |-> 0, gapOk |-> TRUE]

\* A registration step, with the call's record when the step settles it.
RegOp(o, i, r, q) == [op |-> o, id |-> i, res |-> r, call |-> q]

\* if (isRegisteringDeployment) return;
RegistrationInFlightUnchecked == FALSE

RegistrationInFlight == isRegisteringDeployment

\* The try block runs to the return: response.ok and response.json() parsed.
AttemptSucceeds(resp) == resp = "ok"

\* while (attempt < maxRetries)
LoopContinuesOffByOne(attempt) == attempt <= maxRetries

LoopContinues(attempt) == attempt < maxRetries

\* if (attempt >= maxRetries) showErrorMessage(...)
ReportsFailure(attempt) == attempt >= maxRetries

\* The guard once the call has settled: .finally(() => { isRegisteringDeployment = false; })
RegisteringAfterSettleOnSuccessOnly(ok) == ~ok

RegisteringAfterSettle(ok) == FALSE

\* registerRestateServiceDeployment up to the first fetch.
RegisterCall(c) ==
    /\ reg[c].pc = "idle"
    /\ IF RegistrationInFlight THEN
            /\ regOp' = RegOp("register", c, "dropped", FreshReg)
            /\ UNCHANGED <<isRegisteringDeployment, reg>>
       ELSE
            /\ isRegisteringDeployment' = TRUE
            /\ reg' = [reg EXCEPT ![c] = [FreshReg EXCEPT !.pc = "fetch", !.posts = 1]]
            /\ regOp' = RegOp("register", c, "posted", FreshReg)

\* The fetch settles: the rest of the try block, or the catch block up to
\* its delay.
Respond(c, resp) ==
    /\ reg[c].pc = "fetch"
    /\ LET q == [reg[c] EXCEPT !.seen2xx = @ \/ Is2xx(resp)]
       IN IF AttemptSucceeds(resp) THEN
            /\ reg' = [reg EXCEPT ![c] = FreshReg]
            /\ isRegisteringDeployment' = RegisteringAfterSettle(TRUE)
            /\ regOp' = RegOp("respond", c, "success", q)
          ELSE
            /\ reg' = [reg EXCEPT ![c] = [q EXCEPT !.pc = "sleep", !.attempt = @ + 1,
                                                   !.timer = RetryDelayMs]]
            /\ regOp' = RegOp("respond", c, "failed", FreshReg)
            /\ UNCHANGED isRegisteringDeployment

\* The 400 ms delay is over: the failure report when the attempts are used
\* up, then the loop condition, then the next fetch or the return.
Wake(c) ==
    /\ reg[c].pc = "sleep"
    /\ reg[c].timer = 0
    /\ LET q == [reg[c] EXCEPT !.timer = -1,
                               !.reports = IF ReportsFailure(reg[c].attempt) THEN @ + 1 ELSE @]
       IN IF LoopContinues(reg[c].attempt) THEN
            /\ reg' = [reg EXCEPT ![c] = [q EXCEPT !.pc = "fetch", !.posts = @ + 1,
                                                   !.postedAfter2xx = reg[c].seen2xx,
                                                   !.gapOk = @ /\ reg[c].sincePost >= RetryDelayMs,
                                                   !.sincePost = 0]]
            /\ regOp' = RegOp("wake", c, "posted", FreshReg)
            /\ UNCHANGED isRegisteringDeployment
          ELSE
            /\ reg' = [reg EXCEPT ![c] = FreshReg]
            /\ isRegisteringDeployment' = RegisteringAfterSettle(FALSE)
            /\ regOp' = RegOp("wake", c, "exhausted", q)

InFlight == {c \in Callers : reg[c].pc # "idle"}
ArmedSleepTimers == {reg[c].timer : c \in {x \in Callers : reg[x].timer > 0}}
DueSleepTimers == {c \in Callers : reg[c].pc = "sleep" /\ reg[c].timer = 0}

\* Time passes during a registration: at most d ms, never past a due timer.
TickRetry(d) ==
    /\ DueSleepTimers = {}
    /\ \E c \in InFlight : reg[c].sincePost < RetryDelayMs \/ reg[c].timer > 0
    /\ LET step == Min({d} \cup ArmedSleepTimers) IN
       reg' = [c \in Callers |->
            IF c \in InFlight
            THEN [reg[c] EXCEPT !.timer = IF @ > 0 THEN @ - step ELSE @,
                                !.sincePost = Min({@ + step, RetryDelayMs})]
            ELSE reg[c]]
    /\ regOp' = RegOp("tick", 0, "passed", FreshReg)
    /\ UNCHANGED isRegisteringDeployment

RetryTickMs == RetryDelayMs \div StopTicks

InitReg ==
    /\ isRegisteringDeployment = FALSE
    /\ reg = [c \in Callers |-> FreshReg]
    /\ regOp = RegOp("init", 0, "none", FreshReg)

\* ------------------------------------------------------------- detection

FreshSeq == [pc |-> "unused", src |-> "none", srcId |-> 0, calledStart |-> FALSE,
             registerCalls |-> 0, admitted |-> FALSE, overlapped |-> FALSE]

InitDet ==
    /\ restateServerRunner = 0
    /\ seq = [t \in Seqs |-> FreshSeq]

Sources == {"terminal", "debug"}

UnusedSeqs == {t \in Seqs : seq[t].pc = "unused"}
Busy == {t \in Seqs : seq[t].pc \in {"autostart", "register"}}

\* await registerRestateServiceDeployment(), called by sequence t; the
\* sequence ends at once when the call is dropped.
ThenRegister(t, q) ==
    /\ RegisterCall(t)
    /\ seq' = [seq EXCEPT ![t] =
                [q EXCEPT !.pc = IF regOp'.res = "dropped" THEN "done" ELSE "register",
                          !.registerCalls = @ + 1,
                          !.admitted = regOp'.res # "dropped"]]

\* The shell executions (or debug sessions) that have triggered a sequence.
UsedIds(src) == {seq[u].srcId : u \in {x \in Seqs : seq[x].src = src}}

\* Where a matching chunk can come from: an execution or session that has
\* triggered before, or the next new one.
SourceIds(src) == UsedIds(src) \cup {Cardinality(UsedIds(src)) + 1}

\* Whether chunks of the source still reach the marker test.  The for-await
\* loop of a shell execution reads no chunk while its handler awaits, and
\* ends at the break or in the catch; the debug tracker tests every event.
StillMonitoring(src, id) == src = "terminal" => id \notin UsedIds("terminal")

\* A marker is matched in a source: autoStartRestateServer up to its first
\* wait and, when the start needs no wait, the register call after it.
\* The new RestateServerRunner takes the sequence's number.
Detect(t, src, id) ==
    /\ UnusedSeqs # {} /\ t = Min(UnusedSeqs)
    /\ StillMonitoring(src, id)
    /\ LET q == [seq[t] EXCEPT !.src = src, !.srcId = id, !.overlapped = Busy # {}] IN
       IF restateServerRunner # 0 /\ isRunning(restateServerRunner) THEN
            /\ ThenRegister(t, q)
            /\ UNCHANGED <<supVars, restateServerRunner>>
       ELSE
            /\ restateServerRunner' = t
            /\ StartServer(t)
            /\ IF startPc'[t] = "installing" THEN
                    /\ seq' = [seq EXCEPT ![t] = [q EXCEPT !.pc = "autostart", !.calledStart = TRUE]]
                    /\ UNCHANGED regVars
               ELSE ThenRegister(t, [q EXCEPT !.calledStart = TRUE])

\* The install of runner r settles while its sequence awaits startServer:
\* a failed start is rethrown by autoStartRestateServer, which ends the
\* terminal handler in its catch, while the debug chain goes on to register.
DetectInstallSettle(r, outcome) ==
    /\ InstallSettle(r, outcome)
    /\ IF seq[r].pc # "autostart" THEN UNCHANGED <<regVars, seq>>
       ELSE IF supOp'.res = "installFailed" /\ seq[r].src = "terminal" THEN
            /\ seq' = [seq EXCEPT ![r].pc = "aborted"]
            /\ UNCHANGED regVars
       ELSE ThenRegister(r, seq[r])
    /\ UNCHANGED restateServerRunner

\* The sequence ends when its register call returns.
AfterRegister ==
    seq' = [t \in Seqs |-> IF seq[t].pc = "register" /\ reg'[t].pc = "idle"
                           THEN [seq[t] EXCEPT !.pc = "done"] ELSE seq[t]]

\* ---------------------------------------------------------- configuration

\* The values package.json declares for the two settings.
Modes == {"Disabled", "Automatic", "Ask confirmation"}

InitCfg ==
    /\ autoRegistrationMode = "Automatic"
    /\ autoStartRestateServer = "Automatic"
    /\ registrationCancelled = FALSE

\* A cancellation is requested while a registration is in flight.
CancelRegistration ==
    /\ ~registrationCancelled
    /\ InFlight # {}
    /\ registrationCancelled' = TRUE
    /\ regOp' = RegOp("cancel", 0, "requested", FreshReg)
    /\ UNCHANGED <<isRegisteringDeployment, reg, autoRegistrationMode, autoStartRestateServer>>

\* ------------------------------------------------------- spawn environment

EnvNames == {"RESTATE_LOG_DISABLE_ANSI_CODES", "A", "B"}
EnvValues == {"true", "false"}
Undefined == "undefined"

\* A JavaScript object with string values: the value of each name, or undefined.
EnvMaps == [EnvNames -> EnvValues \cup {Undefined}]

\* { ...a, ...b }
ObjectSpread(a, b) == [n \in EnvNames |-> IF b[n] # Undefined THEN b[n] ELSE a[n]]

FixedEnv == [n \in EnvNames |-> IF n = "RESTATE_LOG_DISABLE_ANSI_CODES" THEN "true" ELSE Undefined]

\* env: { "RESTATE_LOG_DISABLE_ANSI_CODES": "true", ...process.env, ...customEnvVars }
SpawnEnv(ambient, custom) == ObjectSpread(ObjectSpread(FixedEnv, ambient), custom)

SpawnWithEnv ==
    /\ spawnEnv = {}
    /\ spawnEnv' = {SpawnEnv(processEnv, customEnvVars)}
    /\ UNCHANGED <<processEnv, customEnvVars>>

InitEnv ==
    /\ processEnv = FixedEnv
    /\ customEnvVars = FixedEnv
    /\ spawnEnv = {}

\* ---------------------------------------------------------- marker matching

SDK_STARTED_MESSAGE_1 == "Restate SDK started listening on 9080"
SDK_STARTED_MESSAGE_2 == "Restate SDK started listening on [::]:9080"
SDK_STARTED_MESSAGE_3 == "Restate SDK started listening on 127.0.0.1:9080"
SDK_STARTED_MESSAGE_4 == "INFO: Listening on 9080..."

\* String.prototype.includes
IncludesAtStartOnly(text, needle) ==
    Len(needle) <= Len(text) /\ SubSeq(text, 1, Len(needle)) = needle

Includes(text, needle) ==
    \E i \in 0..(Len(text) - Len(needle)) : SubSeq(text, i + 1, i + Len(needle)) = needle

\* a || b || ... over the markers in the given order
RECURSIVE MatchInOrder(_, _)
MatchInOrder(text, markers) ==
    IF markers = <<>> THEN FALSE
    ELSE IF Includes(text, Head(markers)) THEN TRUE
    ELSE MatchInOrder(text, Tail(markers))

MarkerMatchWithoutOldMessage(text) ==
    MatchInOrder(text, <<SDK_STARTED_MESSAGE_1, SDK_STARTED_MESSAGE_2, SDK_STARTED_MESSAGE_3>>)

MarkerMatch(text) ==
    MatchInOrder(text, <<SDK_STARTED_MESSAGE_1, SDK_STARTED_MESSAGE_2,
                         SDK_STARTED_MESSAGE_3, SDK_STARTED_MESSAGE_4>>)

\* message.body?.category === 'console' || ... 'stderr' || ... 'stdout'
MonitoredCategory(cat) == cat \in {"console", "stderr", "stdout"}

\* One iteration of the for-await loop over a shell execution's output.
TerminalChunk ==
    /\ category = ""
    /\ detected = "unseen"
    /\ detected' = IF MarkerMatch(data) THEN "acted" ELSE "ignored"
    /\ UNCHANGED <<data, category>>

\* onDidSendMessage for an output event of a debug session.
DebugOutput ==
    /\ category # ""
    /\ detected = "unseen"
    /\ detected' = IF MonitoredCategory(category) /\ MarkerMatch(data) THEN "acted" ELSE "ignored"
    /\ UNCHANGED <<data, category>>

Prefixes == {"", "[worker] ", "9080"}
Suffixes == {"", " (pid 123)", "..."}
Cores ==
    {SDK_STARTED_MESSAGE_1, SDK_STARTED_MESSAGE_2, SDK_STARTED_MESSAGE_3, SDK_STARTED_MESSAGE_4,
     "", "listening on 9081",
     "Restate SDK started listening on 9081",
     "Restate SDK started listening on 908",
     "restate sdk started listening on 9080",
     "Restate SDK started listening on  9080",
     "Restate SDK started listening on [::]:9081",
     "Restate SDK started listening on [::1]:9080",
     "Restate SDK started listening on 127.0.0.1:8080",
     "Restate SDK started listening on 0.0.0.0:9080",
     "INFO: Listening on 9080",
     "INFO: listening on 9080...",
     "info: Listening on 9080...",
     "INFO: Listening on 9080... Restate SDK started listening on 9081"}
Chunks == {p \o c \o s : p \in Prefixes, c \in Cores, s \in Suffixes}
Categories == {"console", "stderr", "stdout", "telemetry", "important"}

InitMark ==
    /\ data = ""
    /\ category = ""
    /\ detected = "unseen"

\* --------------------------------------------------- supervisor alone

SupRunner == 1

InitSup ==
    /\ starting = [r \in Runners |-> FALSE]
    /\ serverProcess = [r \in Runners |-> NoProc]
    /\ startPc = [r \in Runners |-> "idle"]
    /\ cancelRequested = [r \in Runners |-> FALSE]
    /\ procs = [p \in Procs |-> FreshProc]
    /\ supOp = Op("init", 0, "none")

Init ==
    /\ installed \in BOOLEAN
    /\ InitSup
    /\ InitReg
    /\ InitDet
    /\ InitCfg
    /\ InitEnv
    /\ InitMark

Next ==
    \/ \E p \in Procs : SpawnEvent(p) /\ UNCHANGED <<regVars, detVars, envVars, markVars, cfgVars>>
    \/ StartServer(SupRunner) /\ UNCHANGED <<regVars, detVars, envVars, markVars, cfgVars>>
    \/ CancelStart(SupRunner) /\ UNCHANGED <<regVars, detVars, envVars, markVars, cfgVars>>
    \/ \E o \in InstallOutcomes :
            InstallSettle(SupRunner, o) /\ UNCHANGED <<regVars, detVars, envVars, markVars, cfgVars>>
    \/ StopServer(SupRunner) /\ UNCHANGED <<regVars, detVars, envVars, markVars, cfgVars>>
    \/ \E p \in Procs : ErrorEvent(p) /\ UNCHANGED <<regVars, detVars, envVars, markVars, cfgVars>>
    \/ \E p \in Procs : CloseEvent(p) /\ UNCHANGED <<regVars, detVars, envVars, markVars, cfgVars>>
    \/ \E p \in Procs, throws \in BOOLEAN : ForceKill(p, throws) /\ UNCHANGED <<regVars, detVars, envVars, markVars, cfgVars>>
    \/ TickStop(StopTickMs) /\ UNCHANGED <<regVars, detVars, envVars, markVars, cfgVars>>

Spec == Init /\ [][Next]_vars

\* ------------------------------------------------- registration alone

InitRegister ==
    /\ installed = TRUE
    /\ InitSup
    /\ InitReg
    /\ InitDet
    /\ InitCfg
    /\ InitEnv
    /\ InitMark

NextRegister ==
    \/ \E c \in Callers : RegisterCall(c) /\ UNCHANGED <<supVars, detVars, envVars, markVars, cfgVars>>
    \/ \E c \in Callers, resp \in Responses : Respond(c, resp) /\ UNCHANGED <<supVars, detVars, envVars, markVars, cfgVars>>
    \/ \E c \in Callers : Wake(c) /\ UNCHANGED <<supVars, detVars, envVars, markVars, cfgVars>>
    \/ TickRetry(RetryTickMs) /\ UNCHANGED <<supVars, detVars, envVars, markVars, cfgVars>>

SpecRegister == InitRegister /\ [][NextRegister]_vars

\* ------------------------------------------------ spawn environment alone

InitSpawnEnv ==
    /\ installed = TRUE
    /\ InitSup
    /\ InitReg
    /\ InitDet
    /\ InitCfg
    /\ InitMark
    /\ processEnv \in EnvMaps
    /\ customEnvVars \in EnvMaps
    /\ spawnEnv = {}

NextSpawnEnv == SpawnWithEnv /\ UNCHANGED <<supVars, regVars, detVars, markVars, cfgVars>>

SpecSpawnEnv == InitSpawnEnv /\ [][NextSpawnEnv]_vars

\* ------------------------------------------------- marker matching alone

InitMarker ==
    /\ installed = TRUE
    /\ InitSup
    /\ InitReg
    /\ InitDet
    /\ InitCfg
    /\ InitEnv
    /\ data \in Chunks
    /\ category \in Categories \cup {""}
    /\ detected = "unseen"

NextMarker ==
    \/ TerminalChunk /\ UNCHANGED <<supVars, regVars, detVars, envVars, cfgVars>>
    \/ DebugOutput /\ UNCHANGED <<supVars, regVars, detVars, envVars, cfgVars>>

SpecMarker == InitMarker /\ [][NextMarker]_vars

\* ------------------------------------------------ detection and its sequences

InitDetector ==
    /\ installed \in BOOLEAN
    /\ InitSup
    /\ InitReg
    /\ InitDet
    /\ InitCfg
    /\ InitEnv
    /\ InitMark

NextDetector ==
    \/ \E t \in Seqs, src \in Sources : \E id \in SourceIds(src) :
            Detect(t, src, id) /\ UNCHANGED <<envVars, markVars, cfgVars>>
    \/ \E r \in Runners : CancelStart(r) /\ UNCHANGED <<regVars, detVars, envVars, markVars, cfgVars>>
    \/ \E r \in Runners, o \in InstallOutcomes :
            DetectInstallSettle(r, o) /\ UNCHANGED <<envVars, markVars, cfgVars>>
    \/ \E p \in Procs : SpawnEvent(p) /\ UNCHANGED <<regVars, detVars, envVars, markVars, cfgVars>>
    \/ \E p \in Procs : ErrorEvent(p) /\ UNCHANGED <<regVars, detVars, envVars, markVars, cfgVars>>
    \/ \E p \in Procs : CloseEvent(p) /\ UNCHANGED <<regVars, detVars, envVars, markVars, cfgVars>>
    \/ \E c \in Callers, resp \in Responses :
            Respond(c, resp) /\ AfterRegister
                /\ UNCHANGED <<supVars, restateServerRunner, envVars, markVars, cfgVars>>
    \/ \E c \in Callers :
            Wake(c) /\ AfterRegister
                /\ UNCHANGED <<supVars, restateServerRunner, envVars, markVars, cfgVars>>
    \/ TickRetry(RetryDelayMs) /\ UNCHANGED <<supVars, detVars, envVars, markVars, cfgVars>>

SpecDetector == InitDetector /\ [][NextDetector]_vars

\* ------------------------------------- registration with a cancellation

NextRegisterCancel ==
    \/ \E c \in Callers : RegisterCall(c) /\ UNCHANGED <<supVars, detVars, envVars, markVars, cfgVars>>
    \/ \E c \in Callers, resp \in Responses : Respond(c, resp) /\ UNCHANGED <<supVars, detVars, envVars, markVars, cfgVars>>
    \/ \E c \in Callers : Wake(c) /\ UNCHANGED <<supVars, detVars, envVars, markVars, cfgVars>>
    \/ TickRetry(RetryTickMs) /\ UNCHANGED <<supVars, detVars, envVars, markVars, cfgVars>>
    \/ CancelRegistration /\ UNCHANGED <<supVars, detVars, envVars, markVars>>

SpecRegisterCancel == InitRegister /\ [][NextRegisterCancel]_vars

\* ------------------------------------ one detection under each configuration

InitConfig ==
    /\ installed \in BOOLEAN
    /\ InitSup
    /\ InitReg
    /\ InitDet
    /\ InitEnv
    /\ InitMark
    /\ autoRegistrationMode \in Modes
    /\ autoStartRestateServer \in Modes
    /\ registrationCancelled = FALSE

FirstSeq == 1

NextConfig ==
    \/ \E src \in Sources : Detect(FirstSeq, src, 1) /\ UNCHANGED <<envVars, markVars, cfgVars>>
    \/ CancelStart(FirstSeq) /\ UNCHANGED <<regVars, detVars, envVars, markVars, cfgVars>>
    \/ \E o \in InstallOutcomes :
            DetectInstallSettle(FirstSeq, o) /\ UNCHANGED <<envVars, markVars, cfgVars>>
    \/ \E p \in Procs : SpawnEvent(p) /\ UNCHANGED <<regVars, detVars, envVars, markVars, cfgVars>>
    \/ \E p \in Procs : ErrorEvent(p) /\ UNCHANGED <<regVars, detVars, envVars, markVars, cfgVars>>
    \/ \E p \in Procs : CloseEvent(p) /\ UNCHANGED <<regVars, detVars, envVars, markVars, cfgVars>>
    \/ \E resp \in Responses :
            Respond(FirstSeq, resp) /\ AfterRegister
                /\ UNCHANGED <<supVars, restateServerRunner, envVars, markVars, cfgVars>>
    \/ Wake(FirstSeq) /\ AfterRegister
                /\ UNCHANGED <<supVars, restateServerRunner, envVars, markVars, cfgVars>>
    \/ TickRetry(RetryTickMs) /\ UNCHANGED <<supVars, detVars, envVars, markVars, cfgVars>>

SpecConfig == InitConfig /\ [][NextConfig]_vars

\* --------------------------------------- supervisor with a fair environment

\* Time passes and due timers fire; a process that was sent SIGKILL while
\* the stop call still waits delivers its remaining events.
ExitAfterKill(p) ==
    /\ procs[p].sigkill
    /\ procs[p].stop = "pending"
    /\ (SpawnEvent(p) \/ ErrorEvent(p) \/ CloseEvent(p))
    /\ UNCHANGED <<regVars, detVars, envVars, markVars, cfgVars>>

Fairness ==
    /\ WF_vars(TickStop(StopTickMs) /\ UNCHANGED <<regVars, detVars, envVars, markVars, cfgVars>>)
    /\ \A p \in Procs :
        /\ WF_vars(\E throws \in BOOLEAN :
                    ForceKill(p, throws) /\ UNCHANGED <<regVars, detVars, envVars, markVars, cfgVars>>)
        /\ WF_vars(ExitAfterKill(p))

SpecFair == Init /\ [][Next]_vars /\ Fairness

\* ================================================================ claims

stateVars == <<installed, starting, serverProcess, startPc, cancelRequested, procs>>

LiveProcs(r) == {p \in Procs : procs[p].owner = r /\ procs[p].state = "up"}

\* C1: on one supervisor instance at most one server process it started is
\* live (spawned and not yet closed) at any instant, under every interleaving
\* of startServer, stopServer and child-process events.
C1_AtMostOneLive == Cardinality(LiveProcs(SupRunner)) <= 1

\* C2: a startServer call made while a start is pending or a handle is owned
\* returns with a warning and changes nothing: no install subprocess, no
\* spawn, the handle and the starting flag as they were.
C2_RejectedStartNoEffect ==
    [][(supOp'.op = "startServer" /\ (starting[SupRunner] \/ serverProcess[SupRunner] # NoProc))
        => (supOp'.res \in {"alreadyStarting", "alreadyRunning"} /\ UNCHANGED stateVars)]_vars

C2_Witness ==
    /\ supOp = Op("startServer", SupRunner, "alreadyStarting")
    /\ startPc[SupRunner] = "installing"

\* C3: SIGKILL is sent only when no close or error event of the process
\* arrived before the escalation timer fired, 10 s after SIGTERM, and it is
\* sent whenever those 10 s passed without such an event.
C3_EscalationIff ==
    \A p \in Procs :
        /\ procs[p].sigkill => (~procs[p].evtFirst /\ procs[p].killAt >= ForceKillTimeoutMs)
        /\ (procs[p].sigterm /\ procs[p].sinceTerm > ForceKillTimeoutMs /\ ~procs[p].evtFirst)
                => procs[p].sigkill

C3_Witness ==
    \E p, q \in Procs :
        /\ procs[p].sigkill /\ procs[p].killAt = ForceKillTimeoutMs
        /\ procs[q].evtFirst /\ ~procs[q].sigkill /\ procs[q].sinceTerm > ForceKillTimeoutMs

\* C4: stopServer with no handle owned and no start pending resolves at once
\* and changes nothing: no signal, no timer.
C4_IdleStopNoEffect ==
    [][(supOp'.op = "stopServer" /\ ~starting[SupRunner] /\ serverProcess[SupRunner] = NoProc)
        => (supOp'.res = "resolved" /\ UNCHANGED stateVars)]_vars

C4_Witness ==
    /\ supOp = Op("stopServer", SupRunner, "resolved")
    /\ \E p \in Procs : procs[p].state = "up" /\ procs[p].sigterm

Settled == regOp.op \in {"respond", "wake"} /\ regOp.res \in {"success", "exhausted"}

\* C5: when the first 2xx response comes on attempt k, the register call
\* makes exactly k POSTs: none after that response, and the 400 ms delay
\* lies between any two consecutive POSTs.
C5_ExactlyKPosts ==
    /\ \A c \in Callers : ~reg[c].postedAfter2xx /\ reg[c].gapOk
    /\ (Settled /\ regOp.call.seen2xx) =>
        (regOp.res = "success" /\ ~regOp.call.postedAfter2xx /\ regOp.call.gapOk)

\* C6: when every attempt fails with a non-2xx response or a transport
\* error, the register call makes exactly 10 POSTs, reports the failure
\* exactly once, after the last attempt, and returns normally.
C6_ExhaustionTenPostsOneReport ==
    /\ \A c \in Callers : reg[c].posts <= maxRetries /\ reg[c].reports = 0
    /\ (Settled /\ ~regOp.call.seen2xx) =>
        /\ regOp.res = "exhausted"
        /\ regOp.call.posts = maxRetries
        /\ regOp.call.reports = 1

C6_Witness ==
    /\ regOp.op = "wake" /\ regOp.res = "exhausted"
    /\ ~regOp.call.seen2xx
    /\ regOp.call.posts = maxRetries
    /\ ~isRegisteringDeployment

\* C7: at most one registration is in flight at any instant, and a register
\* call made while one is in flight returns at once: no POST, nothing
\* queued, no error, the guard and every call's progress as they were.
C7_SingleRegistration ==
    /\ [](Cardinality(InFlight) <= 1)
    /\ [][(regOp'.op = "register" /\ isRegisteringDeployment)
            => (regOp'.res = "dropped" /\ UNCHANGED <<isRegisteringDeployment, reg>>)]_vars

C7_Witness ==
    /\ regOp.op = "register" /\ regOp.res = "dropped"
    /\ reg[regOp.id].pc = "idle"
    /\ \E c \in Callers : c # regOp.id /\ reg[c].pc = "sleep" /\ reg[c].posts > 1

\* The four markers as the specification lists them.
ActivityMarkers ==
    {"Restate SDK started listening on 9080",
     "Restate SDK started listening on [::]:9080",
     "Restate SDK started listening on 127.0.0.1:9080",
     "INFO: Listening on 9080..."}

Contains(text, m) == \E a \in 0..Len(text), b \in 0..Len(text) :
    a + Len(m) = b /\ SubSeq(text, a + 1, b) = m

MarkerOrders ==
    {o \in [1..4 -> ActivityMarkers] : \A m \in ActivityMarkers : \E i \in 1..4 : o[i] = m}

Observed == category = "" \/ MonitoredCategory(category)

\* C9: an observed chunk triggers the sequence exactly when it contains one
\* of the four markers as a case-sensitive substring, whatever the order in
\* which the markers are tested.
C9_MarkerSubstring ==
    (detected # "unseen" /\ Observed) =>
        /\ (detected = "acted") <=> (\E m \in ActivityMarkers : Contains(data, m))
        /\ \A o \in MarkerOrders : MatchInOrder(data, o) = (detected = "acted")

C9_Witness ==
    /\ detected = "acted"
    /\ data = "[worker] Restate SDK started listening on 9080 (pid 123)"

\* C10: every variable of the spawned server's environment has the
\* overlay's value if the overlay defines it, else the fixed default's value
\* if a fixed default defines it, else the ambient value.
C10_EnvPrecedence ==
    \A e \in spawnEnv : \A n \in EnvNames :
        e[n] = IF customEnvVars[n] # Undefined THEN customEnvVars[n]
               ELSE IF FixedEnv[n] # Undefined THEN FixedEnv[n]
               ELSE processEnv[n]

\* C8: when a terminal match and a debug match arrive, the second before the
\* sequence of the first has finished, one startServer call and one
\* registration are made in total.
C8_OneSequenceForTwoMatches ==
    (\E t, u \in Seqs : /\ seq[t].src = "terminal" /\ seq[u].src = "debug"
                        /\ (seq[t].overlapped \/ seq[u].overlapped))
        => /\ Cardinality({t \in Seqs : seq[t].calledStart}) <= 1
           /\ Cardinality({t \in Seqs : seq[t].admitted}) <= 1

\* C11: once a startServer call that passed the guard has settled (spawned,
\* failed in the install step, or cancelled) the starting flag is false, and
\* a call is rejected as 'already starting' only while a start is pending.
C11_StartingClearedAfterSettle ==
    /\ startPc[SupRunner] = "idle" => ~starting[SupRunner]
    /\ supOp.op = "installSettled" => ~starting[supOp.id]
    /\ supOp.res = "alreadyStarting" => startPc[supOp.id] = "installing"

C11_Witness ==
    /\ supOp = Op("installSettled", SupRunner, "installFailed")
    /\ cancelRequested[SupRunner]
    /\ ~starting[SupRunner]

\* C12: when the install subprocess closes with a non-zero code or reports
\* an error, startServer fails with the installation error, no server
\* process is spawned, no handle is owned and the starting flag is false.
C12_InstallFailureNoSpawn ==
    [][(\E o \in {"closeNonZero", "error"} : InstallSettle(SupRunner, o))
        => /\ supOp' = Op("installSettled", SupRunner, "installFailed")
           /\ UNCHANGED <<procs, installed>>
           /\ serverProcess'[SupRunner] = NoProc
           /\ ~starting'[SupRunner]
           /\ startPc'[SupRunner] = "idle"]_vars

C12_Witness ==
    /\ supOp = Op("installSettled", SupRunner, "installFailed")
    /\ ~cancelRequested[SupRunner]
    /\ ~installed
    /\ \A p \in Procs : procs[p].state = "none"
    /\ serverProcess[SupRunner] = NoProc /\ ~starting[SupRunner]

\* C13: isRunning() is false during the whole install step, and it is true
\* only for a process whose spawn event has been delivered.
C13_RunningOnlyAfterSpawnConfirmed ==
    /\ startPc[SupRunner] = "installing" => ~isRunning(SupRunner)
    /\ isRunning(SupRunner) => procs[serverProcess[SupRunner]].state = "up"

\* C14: a server process that failed to spawn or has closed had its handle
\* cleared and updateUI(false) called exactly once.
C14_StateChangeOncePerTermination ==
    \A p \in Procs : procs[p].state \in {"failed", "closed"} =>
        /\ procs[p].uiFalse = 1
        /\ \A r \in Runners : serverProcess[r] # p

\* C17: when the start is cancelled during the install step, the install
\* subprocess is killed, and the start settles without a spawn, with no
\* handle owned and the starting flag false.
C17_CancelDuringInstall ==
    [][/\ (~cancelRequested[SupRunner] /\ cancelRequested'[SupRunner])
            => supOp' = Op("cancel", SupRunner, "installKilled")
       /\ (startPc[SupRunner] = "installing" /\ cancelRequested[SupRunner]
                /\ startPc'[SupRunner] = "idle")
            => /\ UNCHANGED procs
               /\ supOp'.res \in {"cancelled", "installFailed"}
               /\ serverProcess'[SupRunner] = NoProc
               /\ ~starting'[SupRunner]]_vars

C17_Witness ==
    /\ supOp = Op("installSettled", SupRunner, "cancelled")
    /\ installed
    /\ cancelRequested[SupRunner]
    /\ \A p \in Procs : procs[p].state = "none"
    /\ serverProcess[SupRunner] = NoProc /\ ~starting[SupRunner]

\* C15: a sequence started by a marker match, in a terminal or in a debug
\* session, calls register once its auto-start step is over, whether the
\* start succeeded or failed.
C15_RegisterAfterAutoStart ==
    \A t \in Seqs : seq[t].pc \in {"register", "done", "aborted"} => seq[t].registerCalls >= 1

\* C16: one shell execution and one debug session each trigger at most one
\* sequence: no two sequences come from the same source.
C16_OneTriggerPerSource ==
    \A t, u \in Seqs :
        (t # u /\ seq[t].src # "none" /\ seq[t].src = seq[u].src) => seq[t].srcId # seq[u].srcId

\* C18: once the cancellation is requested, the register call makes no
\* further POST and ends without a failure report.
C18_CancelStopsRetries ==
    [][registrationCancelled =>
        /\ \A c \in Callers : reg'[c].posts <= reg[c].posts
        /\ regOp'.res # "exhausted"]_vars

\* C19: with restate.autoRegistrationMode 'Disabled', a detected marker
\* leads to no registration POST.
C19_RegistrationDisabled ==
    autoRegistrationMode = "Disabled" =>
        /\ \A c \in Callers : reg[c].posts = 0
        /\ ~isRegisteringDeployment

\* C20: with restate.autoStartRestateServer 'Disabled', a detected marker
\* starts no install subprocess and spawns no server process.
C20_AutoStartDisabled ==
    autoStartRestateServer = "Disabled" =>
        /\ \A r \in Runners : startPc[r] # "installing"
        /\ \A p \in Procs : procs[p].state = "none"

\* C21: within one startServer call the server is spawned only once the
\* binary is there, after the install closed with code 0 or was skipped, and
\* never while the install subprocess of the call is still running.
C21_SpawnAfterInstall ==
    /\ (\E p \in Procs : procs[p].state # "none") => installed
    /\ startPc[SupRunner] = "installing" =>
            /\ serverProcess[SupRunner] = NoProc
            /\ \A p \in Procs : procs[p].owner # SupRunner
    /\ supOp.res = "spawned" =>
            /\ startPc[supOp.id] = "idle"
            /\ procs[serverProcess[supOp.id]].state = "pending"

C21_Witness ==
    /\ supOp = Op("installSettled", SupRunner, "spawned")
    /\ installed
    /\ serverProcess[SupRunner] # NoProc
    /\ procs[serverProcess[SupRunner]].state = "pending"

\* C22: stopServer called while a start is in progress returns with a
\* warning and changes nothing: no signal, the install still running, the
\* handle and the starting flag as they were.
C22_StopWhileStartingNoEffect ==
    [][(supOp'.op = "stopServer" /\ starting[SupRunner])
        => (supOp'.res = "ignoredStarting" /\ UNCHANGED stateVars)]_vars

C22_Witness ==
    /\ supOp = Op("stopServer", SupRunner, "ignoredStarting")
    /\ startPc[SupRunner] = "installing"
    /\ starting[SupRunner]
    /\ ~cancelRequested[SupRunner]

C24_StopSettlement ==
    /\ \A p \in Procs :
        /\ (procs[p].sigterm /\ procs[p].errored) =>
                (procs[p].stop = "rejected" /\ procs[p].timer = -1)
        /\ procs[p].stop = "resolved" => procs[p].state = "closed"
        /\ (procs[p].sigterm /\ procs[p].state = "closed") => procs[p].stop # "pending"
        /\ (procs[p].sigterm /\ procs[p].state = "closed" /\ ~procs[p].sigkill
                /\ ~procs[p].errored) => procs[p].stop = "resolved"
    /\ supOp.op = "forceKill" =>
            procs[supOp.id].stop = (IF supOp.res = "threw" THEN "rejected" ELSE "pending")

C24_Witness ==
    /\ supOp.op = "close"
    /\ procs[supOp.id].sigkill
    /\ procs[supOp.id].stop = "resolved"
    /\ \E q \in Procs : procs[q].sigkill /\ procs[q].stop = "rejected" /\ ~procs[q].errored

\* C25: when a server process fails to spawn or closes, the supervisor is
\* back in NotStarted (no handle, starting false) and no process is spawned
\* in its place; a startServer call that follows is admitted and spawns.
C25_ExitBackToNotStarted ==
    [][/\ supOp'.op \in {"error", "close"} =>
            /\ serverProcess'[SupRunner] = NoProc
            /\ ~starting'[SupRunner]
            /\ \A q \in Procs : procs'[q].state = "none" <=> procs[q].state = "none"
       /\ (supOp.op \in {"error", "close"} /\ supOp'.op = "startServer") =>
            /\ supOp'.res = "spawned"
            /\ procs'[serverProcess'[SupRunner]].state = "pending"
            /\ procs[serverProcess'[SupRunner]].state = "none"]_vars

C25_Witness ==
    /\ supOp = Op("startServer", SupRunner, "spawned")
    /\ \E p \in Procs : procs[p].state \in {"failed", "closed"} /\ ~procs[p].sigterm
    /\ \A p \in Procs : procs[p].state \in {"failed", "closed", "pending"}

\* C26: for each server process updateUI(true) is called at most once, on
\* the spawn event only, and never after updateUI(false) was called for it.
C26_StateChangeTrueOnce ==
    /\ \A p \in Procs :
        /\ procs[p].uiTrue <= 1
        /\ procs[p].uiTrue = 1 => procs[p].state \in {"up", "closed"}
        /\ procs[p].state = "up" => procs[p].uiTrue = 1
        /\ procs[p].state = "pending" => procs[p].uiFalse = 0
    /\ supOp.op = "spawn" => procs[supOp.id].uiFalse = 0

C26_Witness ==
    \E p \in Procs : procs[p].state = "closed" /\ procs[p].uiTrue = 1 /\ procs[p].uiFalse = 1

\* C27: the close or error event of a process that stopServer has detached
\* does not clear the handle of a process spawned by a later startServer:
\* the handle to the later process is the same before and after the event.
C27_OldExitKeepsNewHandle ==
    [][(/\ supOp'.op \in {"error", "close"}
        /\ procs[supOp'.id].sigterm /\ procs[supOp'.id].state = "up"
        /\ serverProcess[SupRunner] # NoProc
        /\ serverProcess[SupRunner] # supOp'.id
        /\ procs[serverProcess[SupRunner]].state = "up")
            => serverProcess'[SupRunner] = serverProcess[SupRunner]]_vars

\* C28: once an admitted register call has settled, by a success or after
\* 10 failures, the guard is false: it is set only while a call is in
\* flight, a call is dropped only then, and an admitted call makes a POST.
C28_GuardReleased ==
    /\ isRegisteringDeployment <=> InFlight # {}
    /\ Settled => ~isRegisteringDeployment
    /\ (regOp.op = "register" /\ regOp.res = "dropped") =>
            \E c \in Callers : c # regOp.id /\ reg[c].pc # "idle"
    /\ (regOp.op = "register" /\ regOp.res = "posted") => reg[regOp.id].posts = 1

C28_Witness ==
    /\ regOp.op = "respond" /\ regOp.res = "success"
    /\ regOp.call.posts > 1
    /\ ~isRegisteringDeployment
    /\ InFlight = {}

\* C29: every stopServer call that sent SIGTERM settles in the end, given
\* that time passes, that the escalation timer fires when due, and that a
\* process sent SIGKILL delivers its close or error event.
C29_StopSettles ==
    \A p \in Procs :
        (procs[p].stop = "pending") ~> (procs[p].stop \in {"resolved", "rejected"})

C29_Witness ==
    \E p \in Procs :
        /\ procs[p].sigkill /\ procs[p].killAt = ForceKillTimeoutMs
        /\ procs[p].state = "closed"
        /\ procs[p].stop = "resolved"

====
